---- MODULE Spec2Model ----
(***************************************************************************)
(* Model of GitHistoryProfiler (src/main.py): main() builds a Repository,  *)
(* run() clones once, resolves the commits to visit and, per commit, runs  *)
(* clean -> checkout -> init script -> jobs -> append.  Every external     *)
(* command is a blocking call.  sh.git.* raises on a non-zero exit status, *)
(* os.system returns the status, which the code discards.                  *)
(***************************************************************************)
EXTENDS Integers, Sequences, FiniteSets, TLC

VARIABLES
    wd_exists,   \* filesystem: config['working_directory'] exists
    commit_arg,  \* main(): the -c/--commit selectors handed to run()
    jobs,        \* config['jobs']
    pc,          \* position of the single control flow
    error,       \* the call that raised ("" while none has)
    cloned,      \* sh.git.clone returned successfully
    revs,        \* the revisions git rev-list --all reported
    commits,     \* run(): local `commits` after line 83
    ci,          \* run(): 1-based position of the for loop of line 85
    ji,          \* execute(): 1-based position of the for loop of line 53
    stats,       \* run(): local `stats`
    res,         \* execute(): local `stats`
    start,       \* execute(): local `start`
    now,         \* the wall clock read by time.time()
    tree,        \* the working tree <working_directory>/repo
    running,     \* child job processes that have not exited yet
    init_rc,     \* status returned by os.system at line 47 (discarded)
    job_rc,      \* status returned by os.system at line 59 (discarded)
    calls,       \* number of invocations of each external command
    returned,    \* run() has returned to main()
    main_res     \* main(): local `res` (line 125)

vars == <<wd_exists, commit_arg, jobs, pc, error, cloned, revs, commits, ci,
          ji, stats, res, start, now, tree, running, init_rc, job_rc, calls,
          returned, main_res>>

----------------------------------------------------------------------------
(* Bounds *)

MaxCommits == 2     \* longest commit list (explicit or from rev-list)
MaxJobs == 2        \* longest config['jobs']

----------------------------------------------------------------------------
(* Values *)

\* Commit ids are strings of characters: rev-list prints them as text.
CommitIds == {<<"a", "b">>, <<"c">>}
NL == "\n"
\* The names of the configured jobs, in configuration order.
JobNames == <<"build-time", "run-time", "test-time", "lint-time">>
\* Wall-clock time a job may take, in clock ticks.
Ticks == {0, 1}
TrackedFiles == {"f1", "f2"}
UntrackedFiles == {"out"}
ExitCodes == {0, 1}
CommandKinds == {"clone", "rev-list", "clean", "checkout", "init", "job"}

NoHead == <<>>
NoTree == [head |-> NoHead, modified |-> {}, untracked |-> {}]

SeqsUpTo(S, n) == UNION {[1..k -> S] : k \in 0..n}

JobSpec(n) == [name |-> n, command |-> <<"jobs", n>>]

----------------------------------------------------------------------------
(* Pure helpers *)

Bump(c, kind) == [c EXCEPT ![kind] = @ + 1]

\* str.split() without arguments (line 77): the maximal runs of
\* non-whitespace characters, in order; empty runs are dropped.
RECURSIVE SplitFrom(_, _, _)
SplitFrom(text, i, word) ==
    IF i > Len(text)
    THEN IF word = <<>> THEN <<>> ELSE <<word>>
    ELSE IF text[i] = NL
         THEN IF word = <<>>
              THEN SplitFrom(text, i + 1, <<>>)
              ELSE <<word>> \o SplitFrom(text, i + 1, <<>>)
         ELSE SplitFrom(text, i + 1, Append(word, text[i]))

Split(text) == SplitFrom(text, 1, <<>>)

\* What `git rev-list --all` writes into buf (lines 73-76): one id per line.
RECURSIVE RevListOutput(_)
RevListOutput(ids) ==
    IF ids = <<>> THEN <<>>
    ELSE Head(ids) \o <<NL>> \o RevListOutput(Tail(ids))

\* Variant: the revision list is always queried (`commits = list_commits()`).
NeedsListingAlways(explicit) == TRUE

\* `commits or self.list_commits()` (line 83): the explicit list when it is
\* truthy (non-empty); list_commits() is evaluated only otherwise.
NeedsListing(explicit) == Len(explicit) = 0

ResolveCommits(explicit, listed) ==
    IF NeedsListing(explicit) THEN listed ELSE explicit

\* Variant: only one modified path is restored (`git checkout <path>`).
CleanTreeOnePath(t) ==
    IF t.modified = {} THEN t
    ELSE [t EXCEPT !.modified = @ \ {CHOOSE f \in @ : TRUE}]

\* `git checkout .` (line 37): every tracked path of the working tree is
\* restored from the index; HEAD and untracked files are left alone.
CleanTree(t) == [t EXCEPT !.modified = {}]

\* Variant: handle_commit without its clean() call.
LoopEntryNoClean(cs, i) == IF i <= Len(cs) THEN "checkout" ELSE "return"

\* Where the for loop of line 85 goes for position i: the first statement
\* of handle_commit (line 66) or, the list exhausted, the return of line 88.
LoopEntry(cs, i) == IF i <= Len(cs) THEN "clean" ELSE "return"

\* Where the for loop of line 53 goes for position j: the next job or, the
\* list exhausted, the return of line 63 into line 87.
JobEntry(js, j) == IF j <= Len(js) THEN "job" ELSE "append"

\* What a build script or a job may leave behind in the working tree.
TreesAfterCommand(t) ==
    {[t EXCEPT !.modified = m, !.untracked = u] :
        m \in {x \in SUBSET TrackedFiles : t.modified \subseteq x},
        u \in {x \in SUBSET UntrackedFiles : t.untracked \subseteq x}}

----------------------------------------------------------------------------
(* Initial state: main() has been called, nothing has run yet *)

Init ==
    /\ wd_exists \in BOOLEAN
    /\ commit_arg \in SeqsUpTo(CommitIds, MaxCommits)
    /\ jobs \in {[i \in 1..k |-> JobSpec(JobNames[i])] : k \in 0..MaxJobs}
    /\ pc = "start"
    /\ error = ""
    /\ cloned = FALSE
    /\ revs = <<>>
    /\ commits = <<>>
    /\ ci = 0
    /\ ji = 0
    /\ stats = <<>>
    /\ res = <<>>
    /\ start = 0
    /\ now = 0
    /\ tree = NoTree
    /\ running = {}
    /\ init_rc = 0
    /\ job_rc = 0
    /\ calls = [k \in CommandKinds |-> 0]
    /\ returned = FALSE
    /\ main_res = <<>>

\* An exception leaves run() (and main()): nothing after the raising call
\* executes, run() returns nothing.
Raise(stage) ==
    /\ pc' = "crashed"
    /\ error' = stage

----------------------------------------------------------------------------
(* Actions *)

\* Variant: os.makedirs(..., exist_ok=True).
ConstructExistOk ==
    /\ pc = "start"
    /\ wd_exists' = TRUE
    /\ pc' = "clone"
    /\ UNCHANGED <<commit_arg, jobs, error, cloned, revs, commits, ci, ji,
                   stats, res, start, now, tree, running, init_rc, job_rc,
                   calls, returned, main_res>>

\* Repository.__init__ (lines 25-30): os.makedirs raises FileExistsError
\* when the directory is already there.
Construct ==
    /\ pc = "start"
    /\ IF wd_exists
       THEN /\ Raise("makedirs")
            /\ UNCHANGED wd_exists
       ELSE /\ wd_exists' = TRUE
            /\ pc' = "clone"
            /\ UNCHANGED error
    /\ UNCHANGED <<commit_arg, jobs, cloned, revs, commits, ci, ji, stats,
                   res, start, now, tree, running, init_rc, job_rc, calls,
                   returned, main_res>>

\* Variant: the clone is run through os.system, its failure goes unnoticed.
CloneUnchecked ==
    /\ pc = "clone"
    /\ calls' = Bump(calls, "clone")
    /\ \E ok \in BOOLEAN :
          IF ok
          THEN /\ \E h \in CommitIds : tree' = [NoTree EXCEPT !.head = h]
               /\ cloned' = TRUE
          ELSE UNCHANGED <<tree, cloned>>
    /\ stats' = <<>>
    /\ pc' = "resolve"
    /\ UNCHANGED <<wd_exists, commit_arg, jobs, error, revs, commits, ci, ji,
                   res, start, now, running, init_rc, job_rc, returned,
                   main_res>>

\* run() line 80 -> clone() (lines 32-33), then `stats = []` (line 82).
Clone ==
    /\ pc = "clone"
    /\ calls' = Bump(calls, "clone")
    /\ \E ok \in BOOLEAN :
          IF ok
          THEN /\ \E h \in CommitIds : tree' = [NoTree EXCEPT !.head = h]
               /\ cloned' = TRUE
               /\ stats' = <<>>
               /\ pc' = "resolve"
               /\ UNCHANGED error
          ELSE /\ Raise("clone")
               /\ UNCHANGED <<tree, cloned, stats>>
    /\ UNCHANGED <<wd_exists, commit_arg, jobs, revs, commits, ci, ji, res,
                   start, now, running, init_rc, job_rc, returned, main_res>>

\* run() line 83, with list_commits() (lines 70-77) when it is evaluated,
\* up to the head of the for loop of line 85.
Resolve ==
    /\ pc = "resolve"
    /\ IF NeedsListing(commit_arg)
       THEN /\ calls' = Bump(calls, "rev-list")
            /\ \E ok \in BOOLEAN :
                  IF ok
                  THEN /\ revs' \in SeqsUpTo(CommitIds, MaxCommits)
                       /\ commits' = ResolveCommits(commit_arg,
                                         Split(RevListOutput(revs')))
                       /\ ci' = 1
                       /\ pc' = LoopEntry(commits', 1)
                       /\ UNCHANGED error
                  ELSE /\ Raise("rev-list")
                       /\ UNCHANGED <<revs, commits, ci>>
       ELSE /\ commits' = ResolveCommits(commit_arg, <<>>)
            /\ ci' = 1
            /\ pc' = LoopEntry(commits', 1)
            /\ UNCHANGED <<calls, revs, error>>
    /\ UNCHANGED <<wd_exists, commit_arg, jobs, cloned, ji, stats, res,
                   start, now, tree, running, init_rc, job_rc, returned,
                   main_res>>

\* handle_commit line 66 -> clean() (lines 35-37).
Clean ==
    /\ pc = "clean"
    /\ calls' = Bump(calls, "clean")
    /\ \E ok \in BOOLEAN :
          IF ok
          THEN /\ tree' = CleanTree(tree)
               /\ pc' = "checkout"
               /\ UNCHANGED error
          ELSE /\ Raise("clean")
               /\ UNCHANGED tree
    /\ UNCHANGED <<wd_exists, commit_arg, jobs, cloned, revs, commits, ci,
                   ji, stats, res, start, now, running, init_rc, job_rc,
                   returned, main_res>>

\* switch_to_commit lines 40-43: sh.git.checkout(commit_id).
Checkout ==
    /\ pc = "checkout"
    /\ calls' = Bump(calls, "checkout")
    /\ \E ok \in BOOLEAN :
          IF ok
          THEN /\ tree' = [tree EXCEPT !.head = commits[ci]]
               /\ pc' = "init"
               /\ UNCHANGED error
          ELSE /\ Raise("checkout")
               /\ UNCHANGED tree
    /\ UNCHANGED <<wd_exists, commit_arg, jobs, cloned, revs, commits, ci,
                   ji, stats, res, start, now, running, init_rc, job_rc,
                   returned, main_res>>

\* switch_to_commit lines 45-47: os.system runs the init script and its
\* status is dropped; then execute() starts (lines 50-53).
InitScript ==
    /\ pc = "init"
    /\ calls' = Bump(calls, "init")
    /\ init_rc' \in ExitCodes
    /\ tree' \in TreesAfterCommand(tree)
    /\ res' = <<>>
    /\ ji' = 1
    /\ pc' = JobEntry(jobs, 1)
    /\ UNCHANGED <<wd_exists, commit_arg, jobs, error, cloned, revs, commits,
                   ci, stats, start, now, running, job_rc, returned,
                   main_res>>

\* execute lines 54-59: read the clock, launch the job's command.
JobStart ==
    /\ pc = "job"
    /\ start' = now
    /\ calls' = Bump(calls, "job")
    /\ running' = running \cup {<<ci, ji>>}
    /\ pc' = "job_wait"
    /\ UNCHANGED <<wd_exists, commit_arg, jobs, error, cloned, revs, commits,
                   ci, ji, stats, res, now, tree, init_rc, job_rc, returned,
                   main_res>>

\* Variant: the job is launched in the background, os.system returns at once.
JobReturnNoWait ==
    /\ pc = "job_wait"
    /\ job_rc' \in ExitCodes
    /\ tree' \in TreesAfterCommand(tree)
    /\ \E d \in Ticks : now' = now + d
    /\ res' = Append(res, <<jobs[ji].name, now' - start>>)
    /\ ji' = ji + 1
    /\ pc' = JobEntry(jobs, ji + 1)
    /\ UNCHANGED <<wd_exists, commit_arg, jobs, error, cloned, revs, commits,
                   ci, stats, start, init_rc, running, calls, returned,
                   main_res>>

\* Variant: the job is run through sh.Command (the commented-out lines 55
\* and 58), which raises on a non-zero exit status.
JobReturnChecked ==
    /\ pc = "job_wait"
    /\ running' = running \ {<<ci, ji>>}
    /\ job_rc' \in ExitCodes
    /\ tree' \in TreesAfterCommand(tree)
    /\ \E d \in Ticks : now' = now + d
    /\ IF job_rc' = 0
       THEN /\ res' = Append(res, <<jobs[ji].name, now' - start>>)
            /\ ji' = ji + 1
            /\ pc' = JobEntry(jobs, ji + 1)
            /\ UNCHANGED error
       ELSE /\ Raise("job")
            /\ UNCHANGED <<res, ji>>
    /\ UNCHANGED <<wd_exists, commit_arg, jobs, cloned, revs, commits, ci,
                   stats, start, init_rc, calls, returned, main_res>>

\* execute lines 59-62: os.system returns once the child has exited, the
\* status is dropped, the elapsed time is appended under the job's name.
JobReturn ==
    /\ pc = "job_wait"
    /\ running' = running \ {<<ci, ji>>}
    /\ job_rc' \in ExitCodes
    /\ tree' \in TreesAfterCommand(tree)
    /\ \E d \in Ticks : now' = now + d
    /\ res' = Append(res, <<jobs[ji].name, now' - start>>)
    /\ ji' = ji + 1
    /\ pc' = JobEntry(jobs, ji + 1)
    /\ UNCHANGED <<wd_exists, commit_arg, jobs, error, cloned, revs, commits,
                   ci, stats, start, init_rc, calls, returned, main_res>>

\* Variant: results keyed by commit id (`stats[commit] = res`), so a commit
\* that is visited again overwrites its earlier entry.
AppendResultKeyed ==
    /\ pc = "append"
    /\ IF \E i \in 1..Len(stats) : stats[i][1] = commits[ci]
       THEN stats' = [i \in 1..Len(stats) |->
                        IF stats[i][1] = commits[ci]
                        THEN <<commits[ci], res>> ELSE stats[i]]
       ELSE stats' = Append(stats, <<commits[ci], res>>)
    /\ ci' = ci + 1
    /\ pc' = LoopEntry(commits, ci + 1)
    /\ UNCHANGED <<wd_exists, commit_arg, jobs, error, cloned, revs, commits,
                   ji, res, start, now, tree, running, init_rc, job_rc,
                   calls, returned, main_res>>

\* execute line 63 -> handle_commit line 68 -> run lines 86-87.
AppendResult ==
    /\ pc = "append"
    /\ stats' = Append(stats, <<commits[ci], res>>)
    /\ ci' = ci + 1
    /\ pc' = LoopEntry(commits, ci + 1)
    /\ UNCHANGED <<wd_exists, commit_arg, jobs, error, cloned, revs, commits,
                   ji, res, start, now, tree, running, init_rc, job_rc,
                   calls, returned, main_res>>

\* run line 88 -> main line 125.
Return ==
    /\ pc = "return"
    /\ main_res' = stats
    /\ returned' = TRUE
    /\ pc' = "done"
    /\ UNCHANGED <<wd_exists, commit_arg, jobs, error, cloned, revs, commits,
                   ci, ji, stats, res, start, now, tree, running, init_rc,
                   job_rc, calls>>

Next ==
    \/ Construct
    \/ Clone
    \/ Resolve
    \/ Clean
    \/ Checkout
    \/ InitScript
    \/ JobStart
    \/ JobReturn
    \/ AppendResult
    \/ Return

Spec == Init /\ [][Next]_vars

----------------------------------------------------------------------------
(* Properties *)

InBody == pc \in {"clean", "checkout", "init", "job", "job_wait", "append"}
Others == CommandKinds \ {"clone"}

\* C1: if the init/build script of a commit fails, no job of that commit is
\* invoked and no CommitResult is recorded for it: a job is only ever running,
\* and a result only ever appended, after an init script that exited with 0.
C1_BuildFailureAbortsJobs ==
    (pc \in {"job_wait", "append"}) => init_rc = 0

\* C2: when run() has returned, the Dataset has one CommitResult per resolved
\* commit, in resolved order (duplicates included), each with one JobResult
\* per configured job, named in configuration order.
C2_DatasetShape ==
    returned =>
        /\ Len(main_res) = Len(commits)
        /\ \A i \in 1..Len(main_res) :
              /\ main_res[i][1] = commits[i]
              /\ Len(main_res[i][2]) = Len(jobs)
              /\ \A j \in 1..Len(jobs) : main_res[i][2][j][1] = jobs[j].name

C2_Witness ==
    /\ returned
    /\ Len(commits) = 2
    /\ commits[1] = commits[2]
    /\ Len(jobs) = 2

\* C3: per commit the steps happen in the order clean, checkout (to that
\* commit), init script, jobs, append, each exactly once: at every position
\* of the loop body the number of times each step has been performed is the
\* number of completed commits, plus one for the steps already behind in
\* the current commit.
C3_StepOrder ==
    /\ InBody =>
          /\ ci \in 1..Len(commits)
          /\ Len(stats) = ci - 1
          /\ calls["clean"] = (ci - 1) + (IF pc = "clean" THEN 0 ELSE 1)
          /\ calls["checkout"] =
                (ci - 1) + (IF pc \in {"clean", "checkout"} THEN 0 ELSE 1)
          /\ calls["init"] =
                (ci - 1) + (IF pc \in {"job", "job_wait", "append"} THEN 1 ELSE 0)
          /\ calls["job"] = (ci - 1) * Len(jobs) +
                (CASE pc = "job" -> ji - 1
                   [] pc = "job_wait" -> ji
                   [] pc = "append" -> Len(jobs)
                   [] OTHER -> 0)
          /\ pc = "init" => tree.head = commits[ci]
    /\ pc \in {"return", "done"} =>
          /\ Len(stats) = Len(commits)
          /\ calls["clean"] = Len(commits)
          /\ calls["checkout"] = Len(commits)
          /\ calls["init"] = Len(commits)
          /\ calls["job"] = Len(commits) * Len(jobs)

C3_Witness ==
    /\ pc = "append"
    /\ ci = 2
    /\ Len(jobs) = 2

\* C4: if clean or checkout fails for a commit, the CommitResults appended
\* for the commits before it are still delivered to the caller of run().
C4_FailureKeepsDataset ==
    (pc = "crashed" /\ error \in {"clean", "checkout"} /\ Len(stats) >= 1)
        => (returned /\ main_res = stats)

\* C5: once the commits are resolved, they are the explicit list, verbatim
\* and without a rev-list query, when that list is non-empty, and otherwise
\* the revisions rev-list reported, in the order reported; the commits
\* visited so far are a prefix of that list.
C5_ResolveCommits ==
    ci >= 1 =>
        /\ IF Len(commit_arg) > 0
           THEN commits = commit_arg /\ calls["rev-list"] = 0
           ELSE commits = revs /\ calls["rev-list"] = 1
        /\ \A i \in 1..Len(stats) :
              stats[i][1] = (IF Len(commit_arg) > 0 THEN commit_arg ELSE revs)[i]

C5_Witness ==
    /\ commit_arg = <<>>
    /\ Len(revs) = 2
    /\ revs[1] # revs[2]
    /\ Len(stats) = 2

\* C6: a working directory that exists at startup makes the run fail in the
\* constructor: no external command is ever invoked and run() returns no
\* Dataset.
C6_ExistingDirectoryIsFatal ==
    /\ [][(pc = "start" /\ wd_exists) =>
             (pc' = "crashed" /\ error' = "makedirs")]_vars
    /\ [](error = "makedirs" =>
             /\ pc = "crashed"
             /\ \A k \in CommandKinds : calls[k] = 0
             /\ stats = <<>>
             /\ ~returned)

C6_Witness ==
    /\ pc = "crashed"
    /\ error = "makedirs"

\* C7: at most one clone is performed, it precedes every other command, and
\* a clone that fails ends the run: no other command is invoked, no
\* CommitResult is produced, run() does not return.
C7_CloneOnceAndFatal ==
    /\ calls["clone"] <= 1
    /\ pc \notin {"start", "clone"} /\ error # "makedirs" => calls["clone"] = 1
    /\ (\E k \in Others : calls[k] > 0) => (calls["clone"] = 1 /\ cloned)
    /\ (calls["clone"] = 1 /\ ~cloned) =>
          /\ pc = "crashed"
          /\ error = "clone"
          /\ \A k \in Others : calls[k] = 0
          /\ stats = <<>>
          /\ ~returned

C7_Witness ==
    /\ pc = "crashed"
    /\ error = "clone"
    /\ calls["clone"] = 1

\* C8: clean() is idempotent: the tree a clean() leaves behind is unchanged
\* by a second clean(), and clean() leaves an already-clean tree as it is.
C8_CleanIdempotent ==
    /\ pc = "checkout" => CleanTree(tree) = tree
    /\ CleanTree(CleanTree(tree)) = CleanTree(tree)
    /\ tree.modified = {} => CleanTree(tree) = tree

C8_Witness ==
    /\ pc = "clean"
    /\ calls["clean"] >= 1
    /\ tree.modified = TrackedFiles

\* C9: nothing overlaps: a job is invoked, and a commit's clean starts, only
\* while no job is running; the clean of commit N+1 starts with the results
\* of all N earlier commits appended, and job i+1 starts with the results of
\* jobs 1..i recorded.
C9_NoOverlap ==
    /\ Cardinality(running) <= 1
    /\ pc = "job_wait" => running = {<<ci, ji>>}
    /\ pc \in {"clean", "checkout", "init", "job", "append"} => running = {}
    /\ pc = "clean" => Len(stats) = ci - 1
    /\ pc = "job" => Len(res) = ji - 1

C9_Witness ==
    /\ pc = "clean"
    /\ ci = 2
    /\ Len(jobs) = 2
    /\ Len(stats) = 1

\* C10: a job that exits with failure is treated like any other: its
\* (name, duration) pair is appended and the loop moves on to the next job
\* or, after the last one, to the append of the commit's result.
C10_ExitStatusIgnored ==
    [][(pc = "job_wait" /\ job_rc' # 0) =>
          /\ res' = Append(res, <<jobs[ji].name, now' - start>>)
          /\ ji' = ji + 1
          /\ pc' = (IF ji < Len(jobs) THEN "job" ELSE "append")
          /\ error' = ""]_vars

C10_Witness ==
    /\ pc = "done"
    /\ job_rc # 0
    /\ Len(commits) = 2
    /\ Len(jobs) = 2

====
